---------------------------- MODULE Spec2Model ----------------------------
(***************************************************************************)
(* Render targets (SimpleFrameBuffer, MultiOutputFrameBuffer), their draw  *)
(* validation and blits, the uniform change-detection cache                *)
(* (UniformsStorage) and transform-feedback format matching of glium, as   *)
(* state machines.                                                         *)
(*                                                                         *)
(* Rust indices are 0-based; TLA+ sequences are 1-based, so slot i of a    *)
(* Vec is element i + 1 of the sequence that models it.                    *)
(***************************************************************************)
EXTENDS Integers, Sequences, FiniteSets, TLC

VARIABLES
    values,     \* UniformsStorage.values : Vec<Option<UniformValue>>
    ulast,      \* the last compare_and_store call: slot, value, result
    touched,    \* history: slots compare_and_store has been called for
    sfb,        \* the SimpleFrameBuffer under observation, or NoTarget
    mfb,        \* the MultiOutputFrameBuffer under observation, or NoTarget
    made,       \* history: the constructor call that returned the target
    last,       \* the last framebuffer operation: inputs, result, primitive call
    peer,       \* a second render target, the source of blits, or NoTarget
    tf,         \* the last is_transform_feedback_matching call: inputs, result
    prev,       \* history: the framebuffer operation before the last one
    vs          \* the last MultiVerticesSource::iter call: source, descriptors

vars == <<values, ulast, touched, sfb, mfb, made, last, peer, tf, prev, vs>>

uvars == <<values, ulast, touched>>
fvars == <<sfb, mfb, made, last>>

----------------------------------------------------------------------------
(* Bounds *)

\* highest uniform location submitted to compare_and_store
MaxSlot == 1

\* number of texture / render-buffer objects that exist in the context
NumObjects == 3

\* longest color_attachments slice handed to MultiOutputFrameBuffer
MaxColors == 2

\* capabilities().max_viewport_dims reported by the backend
MaxViewportWidth == 1
MaxViewportHeight == 2

\* most varyings a program captures, and most entries of a vertex format
MaxVaryings == 2
MaxFormat == 2

----------------------------------------------------------------------------
(* UniformValue *)

\* f32 values; NaN is the IEEE not-a-number, unequal to itself under ==
NaN == "NaN"

\* f32 == f32
FloatEq(a, b) == a /= NaN /\ b /= NaN /\ a = b

\* [f32; n] == [f32; n]
ArrayEq(a, b) == Len(a) = Len(b) /\ \A k \in 1..Len(a) : FloatEq(a[k], b[k])

\* [[f32; n]; n] == [[f32; n]; n]
MatEq(a, b) == Len(a) = Len(b) /\ \A k \in 1..Len(a) : ArrayEq(a[k], b[k])

Zeros(n) == [k \in 1..n |-> "0.0"]
ZeroMat(n) == [k \in 1..n |-> Zeros(n)]

\* the variants of UniformValue that compare_and_store has arms for
CacheableKinds ==
    {"SignedInt", "UnsignedInt", "Float", "Mat2", "Mat3", "Mat4", "Vec2", "Vec3", "Vec4"}

\* variants without an arm (texture and block bindings)
OpaqueKinds == {"Texture2d", "Block"}

\* the payloads the model submits for each kind
Payloads(kind) ==
    CASE kind = "SignedInt" -> {0, 1}
      [] kind = "UnsignedInt" -> {0}
      [] kind = "Float" -> {"0.0", NaN}
      [] kind = "Vec2" -> {Zeros(2)}
      [] kind = "Vec3" -> {Zeros(3)}
      [] kind = "Vec4" -> {Zeros(4)}
      [] kind = "Mat2" -> {ZeroMat(2)}
      [] kind = "Mat3" -> {ZeroMat(3)}
      [] kind = "Mat4" -> {ZeroMat(4), [ZeroMat(4) EXCEPT ![2][4] = NaN]}
      [] kind \in OpaqueKinds -> {7}

UniformValue == UNION {{[kind |-> k, v |-> p] : p \in Payloads(k)} :
                          k \in CacheableKinds \cup OpaqueKinds}

\* a == b of the guard `if a == b`, for two payloads of the same kind
PayloadEq(kind, a, b) ==
    CASE kind \in {"SignedInt", "UnsignedInt"} -> a = b
      [] kind = "Float" -> FloatEq(a, b)
      [] kind \in {"Vec2", "Vec3", "Vec4"} -> ArrayEq(a, b)
      [] kind \in {"Mat2", "Mat3", "Mat4"} -> MatEq(a, b)

\* Option<UniformValue>
None == [some |-> FALSE]
Some(x) == [some |-> TRUE, val |-> x]

----------------------------------------------------------------------------
(* UniformsStorage *)

\* Grow resizing the storage to exactly uniform_location + 1 entries
Grow_Resize(vals, loc) ==
    [k \in 1..(loc + 1) |-> IF k <= Len(vals) THEN vals[k] ELSE None]

\* Grow with the new entries zero-initialised to a valid value
Grow_ZeroInit(vals, loc) ==
    IF Len(vals) <= loc
    THEN vals \o [k \in 1..(loc + 1 - Len(vals)) |->
                    Some([kind |-> "SignedInt", v |-> 0])]
    ELSE vals

\* the growth loop: push None until values.len() > uniform_location
Grow(vals, loc) ==
    IF Len(vals) <= loc
    THEN vals \o [k \in 1..(loc + 1 - Len(vals)) |-> None]
    ELSE vals

\* MatchArms without the equality arm of Mat3
MatchArms_NoMat3Arm(value, target) ==
    IF /\ value.kind \in CacheableKinds \ {"Mat3"}
       /\ target.some
       /\ target.val.kind = value.kind
       /\ PayloadEq(value.kind, value.v, target.val.v)
    THEN [ret |-> TRUE, entry |-> target]
    ELSE IF value.kind \in CacheableKinds
    THEN [ret |-> FALSE, entry |-> Some(value)]
    ELSE [ret |-> FALSE, entry |-> target]

\* MatchArms with the `if a == b` guard of the SignedInt arm left out
MatchArms_NoGuard(value, target) ==
    IF /\ value.kind \in CacheableKinds
       /\ target.some
       /\ target.val.kind = value.kind
       /\ (value.kind = "SignedInt" \/ PayloadEq(value.kind, value.v, target.val.v))
    THEN [ret |-> TRUE, entry |-> target]
    ELSE IF value.kind \in CacheableKinds
    THEN [ret |-> FALSE, entry |-> Some(value)]
    ELSE [ret |-> FALSE, entry |-> target]

\* MatchArms whose catch-all arm stores the value
MatchArms_StoreOpaque(value, target) ==
    IF /\ value.kind \in CacheableKinds
       /\ target.some
       /\ target.val.kind = value.kind
       /\ PayloadEq(value.kind, value.v, target.val.v)
    THEN [ret |-> TRUE, entry |-> target]
    ELSE [ret |-> FALSE, entry |-> Some(value)]

\* the match on (value, &mut values[uniform_location]): the value returned
\* and the entry left in the slot
MatchArms(value, target) ==
    IF /\ value.kind \in CacheableKinds
       /\ target.some
       /\ target.val.kind = value.kind
       /\ PayloadEq(value.kind, value.v, target.val.v)
    THEN [ret |-> TRUE, entry |-> target]
    ELSE IF value.kind \in CacheableKinds
    THEN [ret |-> FALSE, entry |-> Some(value)]
    ELSE [ret |-> FALSE, entry |-> target]

compare_and_store(vals, loc, value) ==
    LET grown == Grow(vals, loc)
        m == MatchArms(value, grown[loc + 1])
    IN  [ret |-> m.ret, values |-> [grown EXCEPT ![loc + 1] = m.entry]]

NoCall == [op |-> "none"]

CompareAndStore(loc, value) ==
    LET r == compare_and_store(values, loc, value)
    IN  /\ values' = r.values
        /\ ulast' = [op |-> "compare_and_store", loc |-> loc, value |-> value,
                     ret |-> r.ret, first |-> loc \notin touched,
                     prior |-> Grow(values, loc)[loc + 1]]
        /\ touched' = touched \cup {loc}

UNext == \E loc \in 0..MaxSlot, value \in UniformValue : CompareAndStore(loc, value)

IsCall(c) == c.op = "compare_and_store"

\* a step that calls compare_and_store(loc, v) right after a call
\* compare_and_store(loc, v) that found no prior value in the slot
SecondOfTwo ==
    /\ IsCall(ulast) /\ IsCall(ulast')
    /\ ulast.prior = None
    /\ ulast.value.kind \in CacheableKinds
    /\ ulast'.loc = ulast.loc
    /\ ulast'.value = ulast.value

\* C5 as stated: for every slot i and every value v of a cacheable kind, on
\* a slot with no prior value, compare_and_store(i, v) twice in a row
\* returns false and then true.
C5_TwiceFalseThenTrue ==
    [][SecondOfTwo => (ulast.ret = FALSE /\ ulast'.ret = TRUE)]_vars

\* a value that == holds of against itself: no NaN component
SelfEqual(value) == PayloadEq(value.kind, value.v, value.v)

\* C5 amended: for every slot i and every value v of a cacheable kind that
\* is equal to itself under == (no NaN component), on a slot with no prior
\* value, compare_and_store(i, v) twice in a row returns false and then
\* true; for a v with a NaN component both calls return false.
C5_TwiceSelfEqual ==
    [][SecondOfTwo =>
        /\ ulast.ret = FALSE
        /\ ulast'.ret = SelfEqual(ulast.value)]_vars

C5_Witness ==
    /\ IsCall(ulast) /\ ulast.ret = TRUE
    /\ ulast.value.kind = "Mat3"
    /\ ulast.prior = Some(ulast.value)

\* C6: the first compare_and_store call made for a slot returns false,
\* whichever slots were written before it and whatever the value kind, and
\* an entry of a slot no call was made for is None.
C6_FirstWriteChanged ==
    /\ (IsCall(ulast) /\ ulast.first) => ulast.ret = FALSE
    /\ \A k \in 1..Len(values) : (k - 1) \notin touched => values[k] = None

C6_Witness ==
    /\ IsCall(ulast) /\ ulast.first /\ ulast.loc = 0
    /\ 1 \in touched
    /\ ulast.value = [kind |-> "SignedInt", v |-> 0]

\* the cached entry is a value other than the submitted one
Differs(entry, value) ==
    /\ entry.some
    /\ \/ entry.val.kind /= value.kind
       \/ entry.val.kind = value.kind /\ entry.val.v /= value.v

\* C7: compare_and_store(i, v) returns false whenever the entry cached for
\* slot i is a value of the same kind other than v, or a value of another
\* kind.
C7_DifferentIsChanged ==
    (IsCall(ulast) /\ Differs(ulast.prior, ulast.value)) => ulast.ret = FALSE

C7_Witness ==
    /\ IsCall(ulast)
    /\ ulast.prior = Some([kind |-> "SignedInt", v |-> 0])
    /\ ulast.value = [kind |-> "SignedInt", v |-> 1]
    /\ ulast.ret = FALSE

\* C8: compare_and_store of a value of a kind without a comparison arm
\* returns false in every state, and no entry of the cache ever holds a
\* value of such a kind.
C8_OpaqueNeverCached ==
    /\ (IsCall(ulast) /\ ulast.value.kind \notin CacheableKinds) => ulast.ret = FALSE
    /\ \A k \in 1..Len(values) :
          values[k].some => values[k].val.kind \in CacheableKinds

C8_Witness ==
    /\ IsCall(ulast)
    /\ ulast.value.kind \in OpaqueKinds
    /\ ulast.prior.some
    /\ values[ulast.loc + 1] = ulast.prior

----------------------------------------------------------------------------
(* Textures, render buffers and attachments *)

\* GL names of the objects of the context
Ids == 1..NumObjects

\* the size each object was created with: 1x1, 1x1, 2x1, 2x2, 2x2, 1x2, ...
\* (objects 1 and 2 share a size, object 3 differs from them)
get_width(id) == 1 + ((id \div 3) % 2)
get_height(id) == 1 + ((id \div 4) % 2)
get_dimensions(id) == <<get_width(id), get_height(id)>>

\* enum ColorAttachment
ColorAttachment ==
    {"Texture1d", "SrgbTexture1d", "Texture2d", "SrgbTexture2d", "Texture2dMultisample",
     "SrgbTexture2dMultisample", "Texture3d", "SrgbTexture3d", "Texture1dArray",
     "SrgbTexture1dArray", "Texture2dArray", "SrgbTexture2dArray",
     "Texture2dMultisampleArray", "SrgbTexture2dMultisampleArray", "RenderBuffer"}

\* enum DepthAttachment
DepthAttachment ==
    {"Texture1d", "Texture2d", "Texture2dMultisample", "Texture3d", "Texture1dArray",
     "Texture2dArray", "Texture2dMultisampleArray", "RenderBuffer"}

\* enum StencilAttachment
StencilAttachment == DepthAttachment

\* enum DepthStencilAttachment
DepthStencilAttachment == DepthAttachment

\* an attachment handed to a constructor: the variant and the object it borrows
Handles(variants) == {[kind |-> k, id |-> i] : k \in variants, i \in Ids}

\* Option<T> over a set
Option(S) == {None} \cup {Some(x) : x \in S}

\* fbo::Attachment::Texture { id, bind_point, level: 0, layer: 0 }
AttachmentTexture(id, bind_point) ==
    [type |-> "Texture", id |-> id, bind_point |-> bind_point, level |-> 0, layer |-> 0]

\* fbo::Attachment::RenderBuffer(id)
AttachmentRenderBuffer(id) == [type |-> "RenderBuffer", id |-> id]

\* fbo::FramebufferDepthStencilAttachments
DSNone == [tag |-> "None"]
DSDepthAttachment(d) == [tag |-> "DepthAttachment", depth |-> d]
DSDepthAndStencilAttachments(d, s) ==
    [tag |-> "DepthAndStencilAttachments", depth |-> d, stencil |-> s]

\* a panic (panic!, unimplemented!, assert!) and a value returned
Panic(msg) == [ok |-> FALSE, panic |-> msg]

NoTarget == [kind |-> "none"]
NoPrim == [fn |-> "none"]

----------------------------------------------------------------------------
(* SimpleFrameBuffer *)

\* ResolveColor taking every other variant for a 2D texture
ResolveColor_AsTexture2d(color) ==
    CASE color.kind = "Texture2dMultisample" ->
            [ok |-> TRUE, dimensions |-> <<get_width(color.id), get_height(color.id)>>,
             attachment |-> AttachmentTexture(color.id, "TEXTURE_2D_MULTISAMPLE")]
      [] color.kind = "RenderBuffer" ->
            [ok |-> TRUE, dimensions |-> get_dimensions(color.id),
             attachment |-> AttachmentRenderBuffer(color.id)]
      [] OTHER ->
            [ok |-> TRUE, dimensions |-> <<get_width(color.id), get_height(color.id)>>,
             attachment |-> AttachmentTexture(color.id, "TEXTURE_2D")]

\* the match on `color` of new_impl
ResolveColor(color) ==
    CASE color.kind = "Texture2d" ->
            [ok |-> TRUE, dimensions |-> <<get_width(color.id), get_height(color.id)>>,
             attachment |-> AttachmentTexture(color.id, "TEXTURE_2D")]
      [] color.kind = "Texture2dMultisample" ->
            [ok |-> TRUE, dimensions |-> <<get_width(color.id), get_height(color.id)>>,
             attachment |-> AttachmentTexture(color.id, "TEXTURE_2D_MULTISAMPLE")]
      [] color.kind = "RenderBuffer" ->
            [ok |-> TRUE, dimensions |-> get_dimensions(color.id),
             attachment |-> AttachmentRenderBuffer(color.id)]
      [] OTHER -> Panic("not yet implemented, src/framebuffer.rs:160")

\* the `if let Some(depth) = depth` block of SimpleFrameBuffer::new_impl
ResolveDepth(depth, dimensions) ==
    IF depth.some
    THEN CASE depth.val.kind = "Texture2d" ->
                 IF <<get_width(depth.val.id), get_height(depth.val.id)>> /= dimensions
                 THEN Panic("The depth attachment must have the same dimensions as the color attachment")
                 ELSE [ok |-> TRUE, bits |-> Some(32),
                       attachment |-> Some(AttachmentTexture(depth.val.id, "TEXTURE_2D"))]
           [] depth.val.kind = "RenderBuffer" ->
                 [ok |-> TRUE, bits |-> Some(32),
                  attachment |-> Some(AttachmentRenderBuffer(depth.val.id))]
           [] OTHER -> Panic("not yet implemented, src/framebuffer.rs:180")
    ELSE [ok |-> TRUE, bits |-> None, attachment |-> None]

\* the `if let Some(stencil) = stencil` block of SimpleFrameBuffer::new_impl
ResolveStencil(stencil, dimensions) ==
    IF stencil.some
    THEN CASE stencil.val.kind = "Texture2d" ->
                 IF <<get_width(stencil.val.id), get_height(stencil.val.id)>> /= dimensions
                 THEN Panic("The stencil attachment must have the same dimensions as the color attachment")
                 ELSE [ok |-> TRUE, bits |-> Some(8),
                       attachment |-> Some(AttachmentTexture(stencil.val.id, "TEXTURE_2D"))]
           [] stencil.val.kind = "RenderBuffer" ->
                 [ok |-> TRUE, bits |-> Some(8),
                  attachment |-> Some(AttachmentRenderBuffer(stencil.val.id))]
           [] OTHER -> Panic("not yet implemented, src/framebuffer.rs:204")
    ELSE [ok |-> TRUE, bits |-> None, attachment |-> None]

\* the depth_stencil field of the struct literal of SimpleFrameBuffer::new_impl
ClassifyDepthStencil(depth, stencil) ==
    IF depth.some /\ stencil.some
    THEN DSDepthAndStencilAttachments(depth.val, stencil.val)
    ELSE IF depth.some THEN DSDepthAttachment(depth.val)
    ELSE IF stencil.some THEN DSDepthAttachment(stencil.val)
    ELSE DSNone

\* SimpleFrameBuffer_new_impl checking `depthstencil` after the match on
\* `color`
SimpleFrameBuffer_new_impl_ColorFirst(color, depth, stencil, depthstencil) ==
    LET c == ResolveColor(color) IN
    IF ~c.ok THEN c
    ELSE IF depthstencil.some THEN Panic("not yet implemented, src/framebuffer.rs:138")
    ELSE LET d == ResolveDepth(depth, c.dimensions) IN
    IF ~d.ok THEN d
    ELSE LET s == ResolveStencil(stencil, c.dimensions) IN
    IF ~s.ok THEN s
    ELSE [ok |-> TRUE,
          fb |-> [kind |-> "simple",
                  attachments |-> [colors |-> << <<0, c.attachment>> >>,
                                   depth_stencil |->
                                       ClassifyDepthStencil(d.attachment, s.attachment)],
                  dimensions |-> c.dimensions,
                  depth_buffer_bits |-> d.bits,
                  stencil_buffer_bits |-> s.bits]]

\* SimpleFrameBuffer::new_impl: the target built, or the panic raised
SimpleFrameBuffer_new_impl(color, depth, stencil, depthstencil) ==
    IF depthstencil.some THEN Panic("not yet implemented, src/framebuffer.rs:138")
    ELSE LET c == ResolveColor(color) IN
    IF ~c.ok THEN c
    ELSE LET d == ResolveDepth(depth, c.dimensions) IN
    IF ~d.ok THEN d
    ELSE LET s == ResolveStencil(stencil, c.dimensions) IN
    IF ~s.ok THEN s
    ELSE [ok |-> TRUE,
          fb |-> [kind |-> "simple",
                  attachments |-> [colors |-> << <<0, c.attachment>> >>,
                                   depth_stencil |->
                                       ClassifyDepthStencil(d.attachment, s.attachment)],
                  dimensions |-> c.dimensions,
                  depth_buffer_bits |-> d.bits,
                  stencil_buffer_bits |-> s.bits]]

\* Surface::has_depth_buffer: get_depth_buffer_bits().is_some()
has_depth_buffer(fb) == fb.depth_buffer_bits.some

\* enum DepthTest and DepthTest::requires_depth_buffer
DepthTest == {"Overwrite", "IfLess"}
requires_depth_buffer(depth_test) == depth_test /= "Overwrite"

\* context.capabilities().max_viewport_dims
max_viewport_dims == <<MaxViewportWidth, MaxViewportHeight>>

\* the viewports the model draws with: at the maximum, and one past it on
\* either axis
Viewports ==
    {[width |-> MaxViewportWidth, height |-> MaxViewportHeight],
     [width |-> MaxViewportWidth + 1, height |-> MaxViewportHeight],
     [width |-> MaxViewportWidth, height |-> MaxViewportHeight + 1]}

\* the fields of DrawParameters that draw reads
DrawParameters ==
    [depth_test : DepthTest, depth_write : BOOLEAN, viewport : Option(Viewports)]

\* Program: the fragment output locations of the linked program
Program == { {<<"output1", 0>>, <<"output2", 1>>}, {<<"output1", 1>>, <<"output2", 0>>} }

\* what ops::draw returns
PrimResults == {"Ok(())", "Err(primitive)"}

\* the call ops::draw(context, attachments, .., program, .., draw_parameters, dimensions)
OpsDraw(attachments, program, draw_parameters, dimensions) ==
    [fn |-> "ops::draw", attachments |-> attachments, program |-> program,
     draw_parameters |-> draw_parameters, dimensions |-> dimensions]

\* SimpleFrameBuffer_draw with `>=` for `>` in the width test
SimpleFrameBuffer_draw_WidthOffByOne(fb, program, draw_parameters, prim_result) ==
    IF /\ ~has_depth_buffer(fb)
       /\ (requires_depth_buffer(draw_parameters.depth_test) \/ draw_parameters.depth_write)
    THEN [result |-> "Err(NoDepthBuffer)", prim |-> NoPrim, at |-> 262]
    ELSE IF /\ draw_parameters.viewport.some
            /\ draw_parameters.viewport.val.width >= max_viewport_dims[1]
    THEN [result |-> "Err(ViewportTooLarge)", prim |-> NoPrim, at |-> 269]
    ELSE IF /\ draw_parameters.viewport.some
            /\ draw_parameters.viewport.val.height > max_viewport_dims[2]
    THEN [result |-> "Err(ViewportTooLarge)", prim |-> NoPrim, at |-> 274]
    ELSE [result |-> prim_result,
          prim |-> OpsDraw(Some(fb.attachments), program, draw_parameters, fb.dimensions),
          at |-> 278]

\* SimpleFrameBuffer_draw checking the viewport ahead of the depth buffer
SimpleFrameBuffer_draw_ViewportFirst(fb, program, draw_parameters, prim_result) ==
    IF /\ draw_parameters.viewport.some
       /\ draw_parameters.viewport.val.width > max_viewport_dims[1]
    THEN [result |-> "Err(ViewportTooLarge)", prim |-> NoPrim, at |-> 269]
    ELSE IF /\ draw_parameters.viewport.some
            /\ draw_parameters.viewport.val.height > max_viewport_dims[2]
    THEN [result |-> "Err(ViewportTooLarge)", prim |-> NoPrim, at |-> 274]
    ELSE IF /\ ~has_depth_buffer(fb)
            /\ (requires_depth_buffer(draw_parameters.depth_test) \/ draw_parameters.depth_write)
    THEN [result |-> "Err(NoDepthBuffer)", prim |-> NoPrim, at |-> 262]
    ELSE [result |-> prim_result,
          prim |-> OpsDraw(Some(fb.attachments), program, draw_parameters, fb.dimensions),
          at |-> 278]

\* SimpleFrameBuffer_draw whose depth check leaves out the draw parameters
SimpleFrameBuffer_draw_NoDepthAlways(fb, program, draw_parameters, prim_result) ==
    IF ~has_depth_buffer(fb)
    THEN [result |-> "Err(NoDepthBuffer)", prim |-> NoPrim, at |-> 262]
    ELSE IF /\ draw_parameters.viewport.some
            /\ draw_parameters.viewport.val.width > max_viewport_dims[1]
    THEN [result |-> "Err(ViewportTooLarge)", prim |-> NoPrim, at |-> 269]
    ELSE IF /\ draw_parameters.viewport.some
            /\ draw_parameters.viewport.val.height > max_viewport_dims[2]
    THEN [result |-> "Err(ViewportTooLarge)", prim |-> NoPrim, at |-> 274]
    ELSE [result |-> prim_result,
          prim |-> OpsDraw(Some(fb.attachments), program, draw_parameters, fb.dimensions),
          at |-> 278]

\* SimpleFrameBuffer::draw: the value returned and the primitive call made
SimpleFrameBuffer_draw(fb, program, draw_parameters, prim_result) ==
    IF /\ ~has_depth_buffer(fb)
       /\ (requires_depth_buffer(draw_parameters.depth_test) \/ draw_parameters.depth_write)
    THEN [result |-> "Err(NoDepthBuffer)", prim |-> NoPrim, at |-> 262]
    ELSE IF /\ draw_parameters.viewport.some
            /\ draw_parameters.viewport.val.width > max_viewport_dims[1]
    THEN [result |-> "Err(ViewportTooLarge)", prim |-> NoPrim, at |-> 269]
    ELSE IF /\ draw_parameters.viewport.some
            /\ draw_parameters.viewport.val.height > max_viewport_dims[2]
    THEN [result |-> "Err(ViewportTooLarge)", prim |-> NoPrim, at |-> 274]
    ELSE [result |-> prim_result,
          prim |-> OpsDraw(Some(fb.attachments), program, draw_parameters, fb.dimensions),
          at |-> 278]

\* an empty UniformsStorage (UniformsStorage::new) and no render target yet
Init ==
    /\ values = << >>
    /\ ulast = NoCall
    /\ touched = {}
    /\ sfb = NoTarget
    /\ mfb = NoTarget
    /\ made = NoCall
    /\ last = NoCall
    /\ peer = NoTarget
    /\ tf = NoCall
    /\ prev = NoCall
    /\ vs = NoCall

\* a constructor call: the target it returns, if any, and the record of the
\* call
Construct(variant, color, depth, stencil, depthstencil) ==
    LET r == SimpleFrameBuffer_new_impl(color, depth, stencil, depthstencil)
        call == [op |-> variant, target |-> "simple", color |-> color,
                 depth |-> depth, stencil |-> stencil, depthstencil |-> depthstencil,
                 result |-> IF r.ok THEN "Ok" ELSE r.panic, prim |-> NoPrim]
    IN  /\ sfb' = IF r.ok THEN r.fb ELSE NoTarget
        /\ made' = IF r.ok THEN call ELSE made
        /\ last' = call
        /\ UNCHANGED mfb

\* The target is constructed once, by the first call of a run; a panic
\* unwinds the caller, which ends the run.
Fresh == sfb = NoTarget /\ mfb = NoTarget /\ made = NoCall /\ last = NoCall

SimpleNew ==
    /\ Fresh
    /\ \E color \in Handles(ColorAttachment) :
          Construct("new", color, None, None, None)

SimpleWithDepthBuffer ==
    /\ Fresh
    /\ \E color \in Handles(ColorAttachment), depth \in Handles(DepthAttachment) :
          Construct("with_depth_buffer", color, Some(depth), None, None)

SimpleWithDepthAndStencilBuffer ==
    /\ Fresh
    /\ \E color \in Handles(ColorAttachment), depth \in Handles(DepthAttachment),
          stencil \in Handles(StencilAttachment) :
          Construct("with_depth_and_stencil_buffer", color, Some(depth), Some(stencil), None)

SimpleWithStencilBuffer ==
    /\ Fresh
    /\ \E color \in Handles(ColorAttachment), stencil \in Handles(StencilAttachment) :
          Construct("with_stencil_buffer", color, None, Some(stencil), None)

SimpleWithDepthStencilBuffer ==
    /\ Fresh
    /\ \E color \in Handles(ColorAttachment),
          depthstencil \in Handles(DepthStencilAttachment) :
          Construct("with_depth_stencil_buffer", color, None, None, Some(depthstencil))

\* SimpleFrameBuffer::draw with draw parameters out of `parameters`
SimpleDrawOf(parameters) ==
    /\ sfb /= NoTarget
    /\ \E program \in Program, draw_parameters \in parameters,
          prim_result \in PrimResults :
        LET r == SimpleFrameBuffer_draw(sfb, program, draw_parameters, prim_result)
        IN  /\ last' = [op |-> "draw", target |-> "simple", program |-> program,
                        draw_parameters |-> draw_parameters,
                        result |-> r.result, prim |-> r.prim, at |-> r.at,
                        returned |-> IF r.prim = NoPrim THEN "none" ELSE prim_result]
            /\ UNCHANGED <<sfb, mfb, made>>

SimpleDraw == SimpleDrawOf(DrawParameters)

\* SimpleFrameBuffer::clear
SimpleClear ==
    /\ sfb /= NoTarget
    /\ last' = [op |-> "clear", target |-> "simple", result |-> "()",
                prim |-> [fn |-> "ops::clear", attachments |-> Some(sfb.attachments)]]
    /\ UNCHANGED <<sfb, mfb, made>>

SimpleNext ==
    \/ SimpleNew
    \/ SimpleWithDepthBuffer
    \/ SimpleWithDepthAndStencilBuffer
    \/ SimpleWithStencilBuffer
    \/ SimpleWithDepthStencilBuffer
    \/ SimpleDraw
    \/ SimpleClear

----------------------------------------------------------------------------
(* MultiOutputFrameBuffer *)

\* the names the model declares color attachments under
Names == {"output1", "output2", "output3"}

\* the slices &[(&str, &Texture2d)] handed to the constructors
ColorEntries == {[name |-> n, texture |-> t] : n \in Names, t \in Ids}
ColorLists == UNION {[1..n -> ColorEntries] : n \in 0..MaxColors}

\* ColorLoop taking the dimensions of the first texture for all of them
ColorLoop_FirstOnly(rest, dimensions, attachments) ==
    [ok |-> TRUE,
     dimensions |-> IF rest = << >> THEN dimensions
                    ELSE Some(<<get_width(rest[1].texture), get_height(rest[1].texture)>>),
     attachments |-> attachments \o [k \in 1..Len(rest) |-> <<rest[k].name, rest[k].texture>>]]

\* the `for &(name, texture) in color_attachments.iter()` loop of new_impl,
\* from the entries still to visit, `dimensions` and `attachments`
RECURSIVE ColorLoop(_, _, _)
ColorLoop(rest, dimensions, attachments) ==
    IF rest = << >>
    THEN [ok |-> TRUE, dimensions |-> dimensions, attachments |-> attachments]
    ELSE LET e == Head(rest)
             tex_dims == <<get_width(e.texture), get_height(e.texture)>>
         IN  IF dimensions.some /\ dimensions.val /= tex_dims
             THEN Panic("All textures of a MultiOutputFrameBuffer must have the same dimensions")
             ELSE ColorLoop(Tail(rest), Some(tex_dims),
                            Append(attachments, <<e.name, e.texture>>))

\* the `if let Some(depth) = depth` block of MultiOutputFrameBuffer::new_impl
MultiResolveDepth(depth, dimensions) ==
    IF depth.some
    THEN CASE depth.val.kind = "Texture2d" ->
                 IF <<get_width(depth.val.id), get_height(depth.val.id)>> /= dimensions
                 THEN Panic("The depth attachment must have the same dimensions as the color attachment")
                 ELSE [ok |-> TRUE, bits |-> Some(32),
                       attachment |-> Some(AttachmentTexture(depth.val.id, "TEXTURE_2D"))]
           [] depth.val.kind = "RenderBuffer" ->
                 [ok |-> TRUE, bits |-> Some(32),
                  attachment |-> Some(AttachmentRenderBuffer(depth.val.id))]
           [] OTHER -> Panic("not yet implemented, src/framebuffer.rs:407")
    ELSE [ok |-> TRUE, bits |-> None, attachment |-> None]

\* MultiOutputFrameBuffer_new_impl giving an empty list the dimensions (0, 0)
MultiOutputFrameBuffer_new_impl_EmptyOk(color_attachments, depth, stencil) ==
    IF stencil.some THEN Panic("assertion failed: stencil.is_none()")
    ELSE LET c == ColorLoop(color_attachments, None, << >>) IN
    IF ~c.ok THEN c
    ELSE LET dimensions == IF c.dimensions.some THEN c.dimensions.val ELSE <<0, 0>>
             d == MultiResolveDepth(depth, dimensions) IN
    IF ~d.ok THEN d
    ELSE [ok |-> TRUE,
          fb |-> [kind |-> "multi",
                  dimensions |-> dimensions,
                  color_attachments |-> c.attachments,
                  depth_attachment |-> d.attachment,
                  depth_buffer_bits |-> d.bits,
                  stencil_attachment |-> None,
                  stencil_buffer_bits |-> None]]

\* MultiOutputFrameBuffer::new_impl: the target built, or the panic raised
MultiOutputFrameBuffer_new_impl(color_attachments, depth, stencil) ==
    IF stencil.some THEN Panic("assertion failed: stencil.is_none()")
    ELSE LET c == ColorLoop(color_attachments, None, << >>) IN
    IF ~c.ok THEN c
    ELSE IF ~c.dimensions.some
    THEN Panic("Cannot pass an empty color_attachments when creating a MultiOutputFrameBuffer")
    ELSE LET d == MultiResolveDepth(depth, c.dimensions.val) IN
    IF ~d.ok THEN d
    ELSE [ok |-> TRUE,
          fb |-> [kind |-> "multi",
                  dimensions |-> c.dimensions.val,
                  color_attachments |-> c.attachments,
                  depth_attachment |-> d.attachment,
                  depth_buffer_bits |-> d.bits,
                  stencil_attachment |-> None,
                  stencil_buffer_bits |-> None]]

\* Program::get_frag_data_location
get_frag_data_location(program, name) ==
    IF \E o \in program : o[1] = name
    THEN Some((CHOOSE o \in program : o[1] = name)[2])
    ELSE None

NotFound == "The fragment output was not found in the program"

\* the loop of build_attachments, from the entries still to visit and `colors`
RECURSIVE BuildColors(_, _, _)
BuildColors(rest, program, colors) ==
    IF rest = << >> THEN [ok |-> TRUE, colors |-> colors]
    ELSE LET name == Head(rest)[1]
             texture == Head(rest)[2]
             location == get_frag_data_location(program, name)
         IN  IF ~location.some THEN Panic(NotFound)
             ELSE BuildColors(Tail(rest), program,
                     Append(colors, <<location.val, AttachmentTexture(texture, "TEXTURE_2D")>>))

\* the depth_stencil field built by build_attachments and build_attachments_any
MultiDepthStencil(fb) ==
    IF fb.depth_attachment.some THEN DSDepthAttachment(fb.depth_attachment.val) ELSE DSNone

build_attachments_any(fb) ==
    [colors |-> [k \in 1..Len(fb.color_attachments) |->
                    <<k - 1, AttachmentTexture(fb.color_attachments[k][2], "TEXTURE_2D")>>],
     depth_stencil |-> MultiDepthStencil(fb)]

\* build_attachments numbering the attachments by position, as
\* build_attachments_any does
build_attachments_ByPosition(fb, program) ==
    [ok |-> TRUE, attachments |-> build_attachments_any(fb)]

\* build_attachments leaving out the attachments the program has no output for
build_attachments_Drop(fb, program) ==
    LET found(e) == get_frag_data_location(program, e[1]).some
        c == BuildColors(SelectSeq(fb.color_attachments, found), program, << >>)
    IN  [ok |-> TRUE,
         attachments |-> [colors |-> c.colors, depth_stencil |-> MultiDepthStencil(fb)]]

\* build_attachments keeping the slots of the program of the draw before, if
\* that draw resolved them
build_attachments_Cached(fb, program) ==
    LET used == IF last.op = "draw" /\ last.prim /= NoPrim THEN last.program ELSE program
        c == BuildColors(fb.color_attachments, used, << >>)
    IN  IF ~c.ok THEN c
        ELSE [ok |-> TRUE,
              attachments |-> [colors |-> c.colors, depth_stencil |-> MultiDepthStencil(fb)]]

\* MultiOutputFrameBuffer::build_attachments: the attachments, or the panic
build_attachments(fb, program) ==
    LET c == BuildColors(fb.color_attachments, program, << >>)
    IN  IF ~c.ok THEN c
        ELSE [ok |-> TRUE,
              attachments |-> [colors |-> c.colors, depth_stencil |-> MultiDepthStencil(fb)]]

\* MultiOutputFrameBuffer_draw resolving the output slots ahead of the
\* validation checks
MultiOutputFrameBuffer_draw_ResolveFirst(fb, program, draw_parameters, prim_result) ==
    LET a == build_attachments(fb, program)
    IN  IF ~a.ok THEN [result |-> a.panic, prim |-> NoPrim, at |-> 432]
    ELSE IF /\ ~has_depth_buffer(fb)
            /\ (requires_depth_buffer(draw_parameters.depth_test) \/ draw_parameters.depth_write)
    THEN [result |-> "Err(NoDepthBuffer)", prim |-> NoPrim, at |-> 496]
    ELSE IF /\ draw_parameters.viewport.some
            /\ draw_parameters.viewport.val.width > max_viewport_dims[1]
    THEN [result |-> "Err(ViewportTooLarge)", prim |-> NoPrim, at |-> 503]
    ELSE IF /\ draw_parameters.viewport.some
            /\ draw_parameters.viewport.val.height > max_viewport_dims[2]
    THEN [result |-> "Err(ViewportTooLarge)", prim |-> NoPrim, at |-> 508]
    ELSE [result |-> prim_result,
          prim |-> OpsDraw(Some(a.attachments), program, draw_parameters, fb.dimensions),
          at |-> 512]

\* MultiOutputFrameBuffer_draw whose depth check leaves out depth_write
MultiOutputFrameBuffer_draw_NoWriteCheck(fb, program, draw_parameters, prim_result) ==
    IF /\ ~has_depth_buffer(fb)
       /\ requires_depth_buffer(draw_parameters.depth_test)
    THEN [result |-> "Err(NoDepthBuffer)", prim |-> NoPrim, at |-> 496]
    ELSE IF /\ draw_parameters.viewport.some
            /\ draw_parameters.viewport.val.width > max_viewport_dims[1]
    THEN [result |-> "Err(ViewportTooLarge)", prim |-> NoPrim, at |-> 503]
    ELSE IF /\ draw_parameters.viewport.some
            /\ draw_parameters.viewport.val.height > max_viewport_dims[2]
    THEN [result |-> "Err(ViewportTooLarge)", prim |-> NoPrim, at |-> 508]
    ELSE LET a == build_attachments(fb, program)
         IN  IF ~a.ok THEN [result |-> a.panic, prim |-> NoPrim, at |-> 432]
             ELSE [result |-> prim_result,
                   prim |-> OpsDraw(Some(a.attachments), program, draw_parameters,
                                    fb.dimensions),
                   at |-> 512]

\* MultiOutputFrameBuffer::draw: the value returned, or the panic raised, and
\* the primitive call made
MultiOutputFrameBuffer_draw(fb, program, draw_parameters, prim_result) ==
    IF /\ ~has_depth_buffer(fb)
       /\ (requires_depth_buffer(draw_parameters.depth_test) \/ draw_parameters.depth_write)
    THEN [result |-> "Err(NoDepthBuffer)", prim |-> NoPrim, at |-> 496]
    ELSE IF /\ draw_parameters.viewport.some
            /\ draw_parameters.viewport.val.width > max_viewport_dims[1]
    THEN [result |-> "Err(ViewportTooLarge)", prim |-> NoPrim, at |-> 503]
    ELSE IF /\ draw_parameters.viewport.some
            /\ draw_parameters.viewport.val.height > max_viewport_dims[2]
    THEN [result |-> "Err(ViewportTooLarge)", prim |-> NoPrim, at |-> 508]
    ELSE LET a == build_attachments(fb, program)
         IN  IF ~a.ok THEN [result |-> a.panic, prim |-> NoPrim, at |-> 432]
             ELSE [result |-> prim_result,
                   prim |-> OpsDraw(Some(a.attachments), program, draw_parameters,
                                    fb.dimensions),
                   at |-> 512]

MultiConstruct(variant, color_attachments, depth) ==
    LET r == MultiOutputFrameBuffer_new_impl(color_attachments, depth, None)
        call == [op |-> variant, target |-> "multi",
                 color_attachments |-> color_attachments, depth |-> depth,
                 result |-> IF r.ok THEN "Ok" ELSE r.panic, prim |-> NoPrim]
    IN  /\ mfb' = IF r.ok THEN r.fb ELSE NoTarget
        /\ made' = IF r.ok THEN call ELSE made
        /\ last' = call
        /\ UNCHANGED sfb

MultiNew ==
    /\ Fresh
    /\ \E color_attachments \in ColorLists :
          MultiConstruct("new", color_attachments, None)

MultiWithDepthBuffer ==
    /\ Fresh
    /\ \E color_attachments \in ColorLists, depth \in Handles(DepthAttachment) :
          MultiConstruct("with_depth_buffer", color_attachments, Some(depth))

\* MultiOutputFrameBuffer::draw with draw parameters out of `parameters`
MultiDrawOf(parameters) ==
    /\ mfb /= NoTarget
    /\ \E program \in Program, draw_parameters \in parameters,
          prim_result \in PrimResults :
          LET r == MultiOutputFrameBuffer_draw(mfb, program, draw_parameters, prim_result)
          IN  /\ last' = [op |-> "draw", target |-> "multi", program |-> program,
                          draw_parameters |-> draw_parameters,
                          result |-> r.result, prim |-> r.prim, at |-> r.at,
                          returned |-> IF r.prim = NoPrim THEN "none" ELSE prim_result]
              /\ UNCHANGED <<sfb, mfb, made>>

MultiDraw == MultiDrawOf(DrawParameters)

\* MultiOutputFrameBuffer::clear
MultiClear ==
    /\ mfb /= NoTarget
    /\ last' = [op |-> "clear", target |-> "multi", result |-> "()",
                prim |-> [fn |-> "ops::clear",
                          attachments |-> Some(build_attachments_any(mfb))]]
    /\ UNCHANGED <<sfb, mfb, made>>

MultiNext ==
    \/ MultiNew
    \/ MultiWithDepthBuffer
    \/ MultiDraw
    \/ MultiClear

\* the operations on render targets of both kinds
Next == (SimpleNext \/ MultiNext) /\ UNCHANGED <<uvars, peer, tf, prev, vs>>

Spec == Init /\ [][Next]_vars

----------------------------------------------------------------------------
(* Draw validation *)

IsDraw(c) == c.op = "draw"
IsConstruct(c) == c.op \in {"new", "with_depth_buffer", "with_depth_and_stencil_buffer",
                            "with_stencil_buffer", "with_depth_stencil_buffer"}

\* the draw parameters enable depth writes or use a depth test that needs a
\* depth buffer
NeedsDepth(p) == requires_depth_buffer(p.depth_test) \/ p.depth_write

\* the target was constructed with a depth attachment
HasDepthAttachment == made.depth.some

\* C1: a SimpleFrameBuffer or MultiOutputFrameBuffer draw on a target
\* without a depth attachment, with draw parameters that enable depth writes
\* or use a depth test that requires a depth buffer, returns
\* Err(NoDepthBuffer) without invoking ops::draw, and leaves the target as
\* it was before the call.
C1_NoDepthBuffer ==
    /\ [](IsDraw(last) /\ ~HasDepthAttachment /\ NeedsDepth(last.draw_parameters)
            => last.result = "Err(NoDepthBuffer)" /\ last.prim = NoPrim)
    /\ [][IsDraw(last') /\ last'.result = "Err(NoDepthBuffer)"
            => sfb' = sfb /\ mfb' = mfb]_vars

C1_Witness ==
    /\ IsDraw(last) /\ last.target = "multi"
    /\ ~HasDepthAttachment
    /\ last.draw_parameters.depth_write
    /\ last.draw_parameters.depth_test = "Overwrite"
    /\ last.result = "Err(NoDepthBuffer)"

\* the draw passed the depth check and specifies an explicit viewport
ViewportChecked ==
    /\ IsDraw(last)
    /\ HasDepthAttachment \/ ~NeedsDepth(last.draw_parameters)
    /\ last.draw_parameters.viewport.some

\* the viewport exceeds the maximum on one axis or the other
TooLarge(viewport) ==
    \/ viewport.width > MaxViewportWidth
    \/ viewport.height > MaxViewportHeight

\* C2 as stated: a draw that passes the depth check with an explicit
\* viewport returns Err(ViewportTooLarge) if the width or the height exceeds
\* its maximum, and with both at most the maximum it is not rejected and
\* ops::draw is invoked.
C2_ViewportDispatched ==
    ViewportChecked =>
        IF TooLarge(last.draw_parameters.viewport.val)
        THEN last.result = "Err(ViewportTooLarge)"
        ELSE last.result /= "Err(ViewportTooLarge)" /\ last.prim /= NoPrim

\* a declared color attachment name of the MultiOutputFrameBuffer has no
\* output slot in the program
NameMissing(program) ==
    /\ mfb /= NoTarget
    /\ \E k \in 1..Len(mfb.color_attachments) :
          \A o \in program : o[1] /= mfb.color_attachments[k][1]

\* C2 amended: a draw that passes the depth check with an explicit viewport
\* returns Err(ViewportTooLarge) if the width or the height exceeds its
\* maximum; with both at most the maximum (also exactly equal to it) it is
\* not rejected, and ops::draw is invoked unless the target is a
\* MultiOutputFrameBuffer with a declared attachment name that has no output
\* slot in the program, in which case the draw panics with name-not-found.
C2_ViewportChecked ==
    ViewportChecked =>
        IF TooLarge(last.draw_parameters.viewport.val)
        THEN last.result = "Err(ViewportTooLarge)" /\ last.prim = NoPrim
        ELSE /\ last.result /= "Err(ViewportTooLarge)"
             /\ IF NameMissing(last.program)
                THEN last.result = NotFound /\ last.prim = NoPrim
                ELSE last.prim /= NoPrim

C2_Witness ==
    /\ ViewportChecked
    /\ last.target = "simple"
    /\ last.draw_parameters.viewport.val =
          [width |-> MaxViewportWidth, height |-> MaxViewportHeight]
    /\ last.prim /= NoPrim

----------------------------------------------------------------------------
(* Construction *)

\* the depth attachment handed to the constructor differs in size from a
\* color attachment
DepthDiffers(c) ==
    IF c.target = "simple"
    THEN get_dimensions(c.depth.val.id) /= get_dimensions(c.color.id)
    ELSE \E k \in 1..Len(c.color_attachments) :
            get_dimensions(c.depth.val.id) /= get_dimensions(c.color_attachments[k].texture)

\* C3: a construction with a depth attachment of a wired kind (2D depth
\* texture, depth render buffer) whose size differs from the color
\* attachment's fails and produces no render target.
C3_DepthMismatchFails ==
    (/\ IsConstruct(last)
     /\ last.depth.some
     /\ last.depth.val.kind \in {"Texture2d", "RenderBuffer"}
     /\ DepthDiffers(last))
        => last.result /= "Ok" /\ sfb = NoTarget /\ mfb = NoTarget

\* the attachments a SimpleFrameBuffer references
SimpleAttachments(fb) ==
    {fb.attachments.colors[k][2] : k \in 1..Len(fb.attachments.colors)}
    \cup (IF fb.attachments.depth_stencil.tag = "None" THEN {}
          ELSE {fb.attachments.depth_stencil.depth})
    \cup (IF fb.attachments.depth_stencil.tag = "DepthAndStencilAttachments"
          THEN {fb.attachments.depth_stencil.stencil} ELSE {})

\* C4: every attachment a constructed SimpleFrameBuffer references has the
\* target's recorded dimensions, and a construction with a stencil
\* attachment whose size differs from the color attachment's fails.
C4_AttachmentDimensions ==
    /\ sfb /= NoTarget =>
          \A a \in SimpleAttachments(sfb) : get_dimensions(a.id) = sfb.dimensions
    /\ (/\ IsConstruct(last) /\ last.target = "simple"
        /\ last.stencil.some
        /\ get_dimensions(last.stencil.val.id) /= get_dimensions(last.color.id))
          => last.result /= "Ok"

----------------------------------------------------------------------------
(* Output-slot resolution *)

\* a MultiOutputFrameBuffer draw that reached ops::draw
MultiDispatched == IsDraw(last) /\ last.target = "multi" /\ last.prim /= NoPrim

\* the colors list handed to ops::draw
DrawnColors == last.prim.attachments.val.colors

\* the program of the example: output1 at slot 0, output2 at slot 1
Program12 == {<<"output1", 0>>, <<"output2", 1>>}

\* the target declares output1 (tex1) and output2 (tex2), two textures, in
\* either order
Declares12(tex1, tex2) ==
    tex1 /= tex2 /\
    mfb.color_attachments \in {<< <<"output1", tex1>>, <<"output2", tex2>> >>,
                               << <<"output2", tex2>>, <<"output1", tex1>> >>}

\* C9 as stated: with a program mapping output1 to slot 0 and output2 to
\* slot 1, build_attachments yields the list [(0, tex1), (1, tex2)] for both
\* declaration orders of output1 (tex1) and output2 (tex2).
C9_SameListBothOrders ==
    \A tex1, tex2 \in Ids :
        (MultiDispatched /\ last.program = Program12 /\ Declares12(tex1, tex2))
            => DrawnColors = << <<0, AttachmentTexture(tex1, "TEXTURE_2D")>>,
                                <<1, AttachmentTexture(tex2, "TEXTURE_2D")>> >>

Range(f) == {f[k] : k \in DOMAIN f}

\* C9 amended: build_attachments yields one (slot, texture) pair per declared
\* attachment, in declaration order, the slot being the program's output
\* slot of the attachment's name; so for output1 at slot 0 and output2 at
\* slot 1 both declaration orders yield the same set of pairs,
\* {(0, tex1), (1, tex2)}, as [(0, tex1), (1, tex2)] or [(1, tex2), (0, tex1)].
C9_SlotsByName ==
    MultiDispatched =>
        /\ Len(DrawnColors) = Len(mfb.color_attachments)
        /\ \A k \in 1..Len(DrawnColors) :
              /\ <<mfb.color_attachments[k][1], DrawnColors[k][1]>> \in last.program
              /\ DrawnColors[k][2] =
                    AttachmentTexture(mfb.color_attachments[k][2], "TEXTURE_2D")
        /\ \A tex1, tex2 \in Ids :
              (last.program = Program12 /\ Declares12(tex1, tex2))
                 => Range(DrawnColors) = {<<0, AttachmentTexture(tex1, "TEXTURE_2D")>>,
                                          <<1, AttachmentTexture(tex2, "TEXTURE_2D")>>}

C9_Witness ==
    /\ MultiDispatched /\ last.program = Program12
    /\ mfb.color_attachments = << <<"output2", 2>>, <<"output1", 1>> >>
    /\ DrawnColors = << <<1, AttachmentTexture(2, "TEXTURE_2D")>>,
                        <<0, AttachmentTexture(1, "TEXTURE_2D")>> >>

\* the draw parameters pass both validation checks of draw
PassesValidation ==
    /\ HasDepthAttachment \/ ~NeedsDepth(last.draw_parameters)
    /\ last.draw_parameters.viewport.some => ~TooLarge(last.draw_parameters.viewport.val)

\* C10: a MultiOutputFrameBuffer draw that passes validation on a target
\* with a declared color attachment name that has no output slot in the
\* program panics with name-not-found, and ops::draw is not invoked: the
\* attachment is neither left out nor given a guessed slot.
C10_MissingNameAborts ==
    (IsDraw(last) /\ last.target = "multi" /\ PassesValidation /\ NameMissing(last.program))
        => last.result = NotFound /\ last.prim = NoPrim

C10_Witness ==
    /\ IsDraw(last) /\ last.target = "multi"
    /\ last.result = NotFound
    /\ mfb.color_attachments = << <<"output1", 1>>, <<"output3", 2>> >>

----------------------------------------------------------------------------
(* Depth and stencil of a SimpleFrameBuffer *)

\* the stencil-only variant of fbo::FramebufferDepthStencilAttachments
DSStencilAttachment(s) == [tag |-> "StencilAttachment", stencil |-> s]

\* the attachment a handle of a wired depth or stencil kind resolves to
AttachmentOf(handle) ==
    IF handle.kind = "Texture2d" THEN AttachmentTexture(handle.id, "TEXTURE_2D")
    ELSE AttachmentRenderBuffer(handle.id)

\* C11: the depth_stencil value stored by a SimpleFrameBuffer construction
\* is None when neither depth nor stencil is supplied, the depth-only
\* variant holding the depth attachment when only depth is supplied, the
\* stencil-only variant holding the stencil attachment when only stencil is
\* supplied, and the depth-and-stencil variant when both are supplied; a
\* stencil attachment is never stored in the depth role.
C11_Classification ==
    sfb /= NoTarget =>
        sfb.attachments.depth_stencil =
            (IF made.depth.some /\ made.stencil.some
             THEN DSDepthAndStencilAttachments(AttachmentOf(made.depth.val),
                                               AttachmentOf(made.stencil.val))
             ELSE IF made.depth.some THEN DSDepthAttachment(AttachmentOf(made.depth.val))
             ELSE IF made.stencil.some THEN DSStencilAttachment(AttachmentOf(made.stencil.val))
             ELSE DSNone)

\* get_depth_buffer_bits reporting no depth buffer once a draw was made
get_depth_buffer_bits_LostByDraw(fb) ==
    IF last.op = "draw" THEN None ELSE fb.depth_buffer_bits

\* Surface::get_depth_buffer_bits of SimpleFrameBuffer
get_depth_buffer_bits(fb) == fb.depth_buffer_bits

\* get_stencil_buffer_bits returning the depth field
get_stencil_buffer_bits_DepthField(fb) == fb.depth_buffer_bits

\* Surface::get_stencil_buffer_bits of SimpleFrameBuffer
get_stencil_buffer_bits(fb) == fb.stencil_buffer_bits

\* C12: for every SimpleFrameBuffer construction variant,
\* get_depth_buffer_bits() is present, as 32, exactly when a depth
\* attachment was supplied, and get_stencil_buffer_bits() is present, as 8,
\* exactly when a stencil attachment was supplied; a color-only construction
\* reports both absent.
C12_BufferBits ==
    sfb /= NoTarget =>
        /\ get_depth_buffer_bits(sfb) = (IF made.depth.some THEN Some(32) ELSE None)
        /\ get_stencil_buffer_bits(sfb) = (IF made.stencil.some THEN Some(8) ELSE None)
        /\ made.op = "new" =>
              get_depth_buffer_bits(sfb) = None /\ get_stencil_buffer_bits(sfb) = None

C12_Witness ==
    /\ sfb /= NoTarget
    /\ made.op = "with_stencil_buffer"
    /\ get_depth_buffer_bits(sfb) = None
    /\ get_stencil_buffer_bits(sfb) = Some(8)

\* C13: SimpleFrameBuffer::with_depth_stencil_buffer is rejected for every
\* color attachment and every depth-stencil attachment kind: construction
\* panics at the depthstencil check, ahead of the match that resolves the
\* color attachment, and no render target is produced.
C13_DepthStencilRejected ==
    (IsConstruct(last) /\ last.op = "with_depth_stencil_buffer")
        => /\ last.result = "not yet implemented, src/framebuffer.rs:138"
           /\ sfb = NoTarget /\ mfb = NoTarget /\ made = NoCall

C13_Witness ==
    /\ last.op = "with_depth_stencil_buffer"
    /\ last.color.kind = "Texture3d"
    /\ last.depthstencil.val.kind = "RenderBuffer"
    /\ last.result = "not yet implemented, src/framebuffer.rs:138"
    /\ sfb = NoTarget

----------------------------------------------------------------------------
(* Color attachments of a MultiOutputFrameBuffer *)

IsMultiConstruct(c) == IsConstruct(c) /\ c.target = "multi"

\* C14: a MultiOutputFrameBuffer construction with an empty color
\* attachment list fails, with or without a depth attachment, and no
\* MultiOutputFrameBuffer with zero color attachments is ever produced.
C14_EmptyListFails ==
    /\ (IsMultiConstruct(last) /\ last.color_attachments = << >>)
          => last.result /= "Ok" /\ mfb = NoTarget /\ made = NoCall
    /\ mfb /= NoTarget => Len(mfb.color_attachments) > 0

C14_Witness ==
    /\ IsMultiConstruct(last) /\ last.op = "with_depth_buffer"
    /\ last.color_attachments = << >>
    /\ last.depth.val.kind = "RenderBuffer"
    /\ last.result =
          "Cannot pass an empty color_attachments when creating a MultiOutputFrameBuffer"
    /\ mfb = NoTarget

\* two of the named color textures differ in (width, height)
ColorsDiffer(color_attachments) ==
    \E j, k \in 1..Len(color_attachments) :
        get_dimensions(color_attachments[j].texture)
            /= get_dimensions(color_attachments[k].texture)

\* C15: a MultiOutputFrameBuffer construction fails if any two of the named
\* color textures differ in (width, height), wherever in the list the
\* differing texture is; on success every named color texture has the
\* target's recorded dimensions.
C15_SameDimensions ==
    /\ (IsMultiConstruct(last) /\ ColorsDiffer(last.color_attachments))
          => last.result /= "Ok" /\ mfb = NoTarget
    /\ mfb /= NoTarget =>
          \A k \in 1..Len(mfb.color_attachments) :
              get_dimensions(mfb.color_attachments[k][2]) = mfb.dimensions

C15_Witness ==
    /\ IsMultiConstruct(last)
    /\ Len(last.color_attachments) = MaxColors
    /\ ColorsDiffer(last.color_attachments)
    /\ get_dimensions(last.color_attachments[1].texture) = <<1, 1>>
    /\ last.result = "All textures of a MultiOutputFrameBuffer must have the same dimensions"
    /\ mfb = NoTarget

----------------------------------------------------------------------------
(* Draws that pass validation *)

\* DrawParameters::default() in the fields draw reads
DefaultDrawParameters ==
    [depth_test |-> "Overwrite", depth_write |-> FALSE, viewport |-> None]

\* the attachment a color handle of a wired kind resolves to
ColorAttachmentOf(color) ==
    CASE color.kind = "Texture2d" -> AttachmentTexture(color.id, "TEXTURE_2D")
      [] color.kind = "Texture2dMultisample" ->
            AttachmentTexture(color.id, "TEXTURE_2D_MULTISAMPLE")
      [] color.kind = "RenderBuffer" -> AttachmentRenderBuffer(color.id)

\* C19: a draw on a color-only SimpleFrameBuffer with the default draw
\* parameters (no depth write, a depth test that needs no depth buffer, no
\* viewport) passes validation, is dispatched to ops::draw with the
\* attachments and the dimensions of the construction, and returns what
\* ops::draw returns; a SimpleFrameBuffer draw returns NoDepthBuffer or
\* ViewportTooLarge only when the corresponding condition holds.
C19_NoSpuriousErrors ==
    (IsDraw(last) /\ last.target = "simple") =>
        /\ last.result = "Err(NoDepthBuffer)"
              => ~made.depth.some /\ NeedsDepth(last.draw_parameters)
        /\ last.result = "Err(ViewportTooLarge)"
              => /\ last.draw_parameters.viewport.some
                 /\ TooLarge(last.draw_parameters.viewport.val)
        /\ (made.op = "new" /\ last.draw_parameters = DefaultDrawParameters)
              => /\ last.prim =
                       OpsDraw(Some([colors |-> << <<0, ColorAttachmentOf(made.color)>> >>,
                                     depth_stencil |-> DSNone]),
                               last.program, DefaultDrawParameters,
                               get_dimensions(made.color.id))
                 /\ last.result = last.returned
                 /\ last.returned \in PrimResults

C19_Witness ==
    /\ IsDraw(last) /\ last.target = "simple"
    /\ made.op = "new" /\ made.color.kind = "Texture2d"
    /\ last.draw_parameters = DefaultDrawParameters
    /\ last.prim /= NoPrim
    /\ last.result = "Err(primitive)"

----------------------------------------------------------------------------
(* Attachment kinds without a code path *)

\* the panics raised by unimplemented!() in the constructors
Unimplemented ==
    {"not yet implemented, src/framebuffer.rs:138",
     "not yet implemented, src/framebuffer.rs:160",
     "not yet implemented, src/framebuffer.rs:180",
     "not yet implemented, src/framebuffer.rs:204",
     "not yet implemented, src/framebuffer.rs:407"}

WiredColors == {"Texture2d", "Texture2dMultisample", "RenderBuffer"}
WiredDepths == {"Texture2d", "RenderBuffer"}

\* the constructor call hands over a color, depth or stencil attachment of a
\* kind without a code path
Unwired(c) ==
    \/ c.target = "simple" /\ c.color.kind \notin WiredColors
    \/ c.depth.some /\ c.depth.val.kind \notin WiredDepths
    \/ c.target = "simple" /\ c.stencil.some /\ c.stencil.val.kind \notin WiredDepths

NoTargetProduced == sfb = NoTarget /\ mfb = NoTarget /\ made = NoCall

\* C20 as stated: a construction with a color, depth or stencil attachment
\* of a kind without a code path aborts with an unimplemented failure, and
\* no target is ever produced from such an attachment.
C20_UnwiredUnimplemented ==
    /\ (IsConstruct(last) /\ Unwired(last))
          => last.result \in Unimplemented /\ NoTargetProduced
    /\ IsConstruct(made) => ~Unwired(made)

\* the check that fails ahead of the unwired attachment's match, if any: the
\* size of a 2D depth texture ahead of the stencil attachment, the color
\* list of a MultiOutputFrameBuffer ahead of the depth attachment
EarlierFailure(c) ==
    IF c.target = "simple"
    THEN IF /\ c.color.kind \in WiredColors
            /\ c.depth.some /\ c.depth.val.kind = "Texture2d"
            /\ get_dimensions(c.depth.val.id) /= get_dimensions(c.color.id)
         THEN Some("The depth attachment must have the same dimensions as the color attachment")
         ELSE None
    ELSE IF ColorsDiffer(c.color_attachments)
         THEN Some("All textures of a MultiOutputFrameBuffer must have the same dimensions")
         ELSE IF c.color_attachments = << >>
         THEN Some("Cannot pass an empty color_attachments when creating a MultiOutputFrameBuffer")
         ELSE None

\* C20 amended: a construction with a color, depth or stencil attachment of
\* a kind without a code path aborts and produces no target; the abort is
\* the unimplemented failure unless a check ahead of that attachment's match
\* fails first (the size of a 2D depth texture ahead of an unwired stencil
\* kind; an empty or size-mismatched color list of a MultiOutputFrameBuffer
\* ahead of an unwired depth kind), and then it is that check's failure; no
\* target is ever produced from such an attachment.
C20_UnwiredAborts ==
    /\ (IsConstruct(last) /\ Unwired(last))
          => /\ NoTargetProduced
             /\ IF EarlierFailure(last).some
                THEN last.result = EarlierFailure(last).val
                ELSE last.result \in Unimplemented
    /\ IsConstruct(made) => ~Unwired(made)

C20_Witness ==
    /\ last.op = "with_depth_and_stencil_buffer"
    /\ last.color.kind = "Texture2d"
    /\ last.depth.val.kind = "Texture2d"
    /\ last.stencil.val.kind = "Texture3d"
    /\ last.result =
          "The depth attachment must have the same dimensions as the color attachment"
    /\ NoTargetProduced

----------------------------------------------------------------------------
(* Blits *)

\* uniforms::MagnifySamplerFilter and its to_glenum
MagnifySamplerFilter == {"Nearest", "Linear"}
to_glenum(filter) == IF filter = "Nearest" THEN "GL_NEAREST" ELSE "GL_LINEAR"

\* the side lengths of the rectangles the model blits
RectSides == {4, 8}

\* Rect (the source rectangle) and BlitTarget (the destination rectangle)
Rect == {[left |-> 0, bottom |-> 0, width |-> n, height |-> n] : n \in RectSides}
BlitTarget == {[left |-> 0, bottom |-> 0, width |-> n, height |-> n] : n \in RectSides}

\* FboAttachments::get_attachments of SimpleFrameBuffer
SimpleFrameBuffer_get_attachments(fb) == [ok |-> TRUE, val |-> Some(fb.attachments)]

\* FboAttachments::get_attachments of MultiOutputFrameBuffer
MultiOutputFrameBuffer_get_attachments(fb) ==
    Panic("not yet implemented, src/framebuffer.rs:548")

\* get_attachments of the render target at hand
get_attachments(fb) ==
    IF fb.kind = "simple" THEN SimpleFrameBuffer_get_attachments(fb)
    ELSE MultiOutputFrameBuffer_get_attachments(fb)

\* the call ops::blit(context, source, target, mask, source_rect, target_rect, filter)
OpsBlit(source, target, mask, source_rect, target_rect, filter) ==
    [fn |-> "ops::blit", source |-> source, target |-> target, mask |-> mask,
     source_rect |-> source_rect, target_rect |-> target_rect, filter |-> filter]

\* blit_from_frame of either render target: the value returned, or the panic
\* raised, and the primitive call made
blit_from_frame(self, source_rect, target_rect, filter) ==
    LET t == get_attachments(self)
    IN  IF ~t.ok THEN [result |-> t.panic, prim |-> NoPrim]
        ELSE [result |-> "()",
              prim |-> OpsBlit(None, t.val, "COLOR_BUFFER_BIT", source_rect, target_rect,
                               to_glenum(filter))]

\* blit_from_simple_framebuffer handing the two attachment lists over in the
\* other order
blit_from_simple_framebuffer_Swapped(self, source, source_rect, target_rect, filter) ==
    LET s == get_attachments(source)
        t == get_attachments(self)
    IN  IF ~s.ok THEN [result |-> s.panic, prim |-> NoPrim]
        ELSE IF ~t.ok THEN [result |-> t.panic, prim |-> NoPrim]
        ELSE [result |-> "()",
              prim |-> OpsBlit(t.val, s.val, "COLOR_BUFFER_BIT", source_rect, target_rect,
                               to_glenum(filter))]

\* blit_from_simple_framebuffer of either render target; the arguments of
\* ops::blit are evaluated left to right, the source's attachments first
blit_from_simple_framebuffer(self, source, source_rect, target_rect, filter) ==
    LET s == get_attachments(source)
        t == get_attachments(self)
    IN  IF ~s.ok THEN [result |-> s.panic, prim |-> NoPrim]
        ELSE IF ~t.ok THEN [result |-> t.panic, prim |-> NoPrim]
        ELSE [result |-> "()",
              prim |-> OpsBlit(s.val, t.val, "COLOR_BUFFER_BIT", source_rect, target_rect,
                               to_glenum(filter))]

\* blit_from_multioutput_framebuffer of either render target
blit_from_multioutput_framebuffer(self, source, source_rect, target_rect, filter) ==
    LET s == get_attachments(source)
        t == get_attachments(self)
    IN  IF ~s.ok THEN [result |-> s.panic, prim |-> NoPrim]
        ELSE IF ~t.ok THEN [result |-> t.panic, prim |-> NoPrim]
        ELSE [result |-> "()",
              prim |-> OpsBlit(s.val, t.val, "COLOR_BUFFER_BIT", source_rect, target_rect,
                               to_glenum(filter))]

\* SimpleFrameBuffer::blit_color and MultiOutputFrameBuffer::blit_color
blit_color(self, source_rect, target, target_rect, filter) ==
    IF self.kind = "simple"
    THEN blit_from_simple_framebuffer(target, self, source_rect, target_rect, filter)
    ELSE blit_from_multioutput_framebuffer(target, self, source_rect, target_rect, filter)

\* blit_color of the screen (Frame)
Frame_blit_color(source_rect, target, target_rect, filter) ==
    blit_from_frame(target, source_rect, target_rect, filter)

\* the render target under observation, the destination of the blits
Target == IF sfb /= NoTarget THEN sfb ELSE mfb

\* the last call returned: a panic unwinds the caller, which ends the run
Returned ==
    last.result \in {"Ok", "()", "Err(NoDepthBuffer)", "Err(ViewportTooLarge)"} \cup PrimResults

\* the color_attachments slices the second target is built from
PeerColorLists == {l \in ColorLists : Len(l) <= 1}

\* the second target is constructed right after the first
PeerFresh == peer = NoTarget /\ made /= NoCall /\ last = made

\* SimpleFrameBuffer::new for the second target
PeerSimpleNew ==
    /\ PeerFresh
    /\ \E color \in Handles(ColorAttachment) :
          LET r == SimpleFrameBuffer_new_impl(color, None, None, None)
          IN  /\ peer' = IF r.ok THEN r.fb ELSE NoTarget
              /\ last' = [op |-> "new", target |-> "simple", color |-> color,
                          depth |-> None, stencil |-> None, depthstencil |-> None,
                          result |-> IF r.ok THEN "Ok" ELSE r.panic, prim |-> NoPrim]
              /\ UNCHANGED <<sfb, mfb, made>>

\* MultiOutputFrameBuffer::new for the second target
PeerMultiNew ==
    /\ PeerFresh
    /\ \E color_attachments \in PeerColorLists :
          LET r == MultiOutputFrameBuffer_new_impl(color_attachments, None, None)
          IN  /\ peer' = IF r.ok THEN r.fb ELSE NoTarget
              /\ last' = [op |-> "new", target |-> "multi",
                          color_attachments |-> color_attachments, depth |-> None,
                          result |-> IF r.ok THEN "Ok" ELSE r.panic, prim |-> NoPrim]
              /\ UNCHANGED <<sfb, mfb, made>>

\* frame.blit_color(&source_rect, &target, &target_rect, filter)
BlitFromFrame ==
    /\ made /= NoCall /\ Returned
    /\ \E source_rect \in Rect, target_rect \in BlitTarget, filter \in MagnifySamplerFilter :
          LET r == Frame_blit_color(source_rect, Target, target_rect, filter)
          IN  /\ last' = [op |-> "blit_color", source |-> "screen", target |-> Target.kind,
                          source_rect |-> source_rect, target_rect |-> target_rect,
                          filter |-> filter, result |-> r.result, prim |-> r.prim]
              /\ UNCHANGED <<sfb, mfb, made, peer>>

\* peer.blit_color(&source_rect, &target, &target_rect, filter)
BlitColor ==
    /\ peer /= NoTarget /\ Returned
    /\ \E source_rect \in Rect, target_rect \in BlitTarget, filter \in MagnifySamplerFilter :
          LET r == blit_color(peer, source_rect, Target, target_rect, filter)
          IN  /\ last' = [op |-> "blit_color", source |-> peer.kind, target |-> Target.kind,
                          source_rect |-> source_rect, target_rect |-> target_rect,
                          filter |-> filter, result |-> r.result, prim |-> r.prim]
              /\ UNCHANGED <<sfb, mfb, made, peer>>

\* two render targets and the blits into the first
BlitNext ==
    /\ \/ (SimpleNew \/ MultiNew) /\ UNCHANGED peer
       \/ PeerSimpleNew
       \/ PeerMultiNew
       \/ BlitFromFrame
       \/ BlitColor
    /\ UNCHANGED <<uvars, tf, prev, vs>>

BlitSpec == Init /\ [][BlitNext]_vars

IsBlit(c) == c.op = "blit_color"

\* C17: a blit reaches ops::blit for every combination of a screen,
\* SimpleFrameBuffer or MultiOutputFrameBuffer source and a SimpleFrameBuffer
\* or MultiOutputFrameBuffer destination, each side resolving its own
\* attachment list; a blit whose source or destination is a
\* MultiOutputFrameBuffer completes the dispatch rather than aborting.
C17_BlitReachesPrimitive ==
    IsBlit(last) => last.result = "()" /\ last.prim /= NoPrim

\* C18: blit_color from a SimpleFrameBuffer or the screen into a
\* SimpleFrameBuffer checks no rectangle size against the other: for every
\* source and destination rectangle ops::blit is invoked with the source's
\* attachments (none for the screen) as source, the destination's
\* attachments as destination, both rectangles unchanged, the requested
\* filter, and the color-buffer mask only.
C18_BlitForwarded ==
    (IsBlit(last) /\ last.target = "simple" /\ last.source \in {"screen", "simple"})
        => /\ last.result = "()"
           /\ last.prim =
                 [fn |-> "ops::blit",
                  source |-> IF last.source = "screen" THEN None ELSE Some(peer.attachments),
                  target |-> Some(sfb.attachments),
                  mask |-> "COLOR_BUFFER_BIT",
                  source_rect |-> last.source_rect,
                  target_rect |-> last.target_rect,
                  filter |-> IF last.filter = "Linear" THEN "GL_LINEAR" ELSE "GL_NEAREST"]

C18_Witness ==
    /\ IsBlit(last) /\ last.target = "simple" /\ last.source = "simple"
    /\ peer.attachments /= sfb.attachments
    /\ last.source_rect.width = 4 /\ last.source_rect.height = 4
    /\ last.target_rect.width = 8 /\ last.target_rect.height = 8
    /\ last.filter = "Linear"
    /\ last.prim /= NoPrim

----------------------------------------------------------------------------
(* Transform feedback *)

\* vertex::AttributeType: vec2 and vec3 of f32, and their sizes in bytes
AttributeType == {"F32F32", "F32F32F32"}
SizeOf(ty) == IF ty = "F32F32" THEN 8 ELSE 12

\* the names of the vertex attributes and varyings
AttributeNames == {"a", "b"}

\* the offsets a vertex format places its attributes at
FormatOffsets == {0} \cup {SizeOf(ty) : ty \in AttributeType}

\* vertex::VertexFormat: Vec<(name, offset, type)>
VertexFormat ==
    UNION {[1..n -> AttributeNames \X FormatOffsets \X AttributeType] : n \in 0..MaxFormat}

\* program::TransformFeedbackVarying, and the lists a program captures
TransformFeedbackVarying ==
    {[name |-> n, size |-> SizeOf(ty), ty |-> ty] : n \in AttributeNames, ty \in AttributeType}
Varyings == UNION {[1..n -> TransformFeedbackVarying] : n \in 0..MaxVaryings}

\* program::TransformFeedbackMode
TransformFeedbackMode == {"Interleaved", "Separate"}

\* the loop of is_transform_feedback_matching, from the varyings still to
\* visit and `current_offset`
RECURSIVE VaryingsLoop(_, _, _)
VaryingsLoop(format, rest, current_offset) ==
    IF rest = << >> THEN TRUE
    ELSE LET var == Head(rest)
         IN  IF ~\E k \in 1..Len(format) :
                    /\ format[k][1] = var.name
                    /\ format[k][2] = current_offset
                    /\ format[k][3] = var.ty
             THEN FALSE
             ELSE VaryingsLoop(format, Tail(rest), current_offset + var.size)

\* is_transform_feedback_matching looking the varyings up by name and type
\* at any offset
is_transform_feedback_matching_AnyOffset(format, program) ==
    /\ program.transform_feedback_mode = Some("Interleaved")
    /\ \A j \in 1..Len(program.transform_feedback_varyings) :
          \E k \in 1..Len(format) :
              /\ format[k][1] = program.transform_feedback_varyings[j].name
              /\ format[k][3] = program.transform_feedback_varyings[j].ty

is_transform_feedback_matching(format, program) ==
    IF program.transform_feedback_mode /= Some("Interleaved") THEN FALSE
    ELSE VaryingsLoop(format, program.transform_feedback_varyings, 0)

\* a call of is_transform_feedback_matching on a vertex format and a program
IsTransformFeedbackMatching ==
    /\ tf = NoCall
    /\ \E format \in VertexFormat, mode \in Option(TransformFeedbackMode),
          varyings \in Varyings :
          LET program == [transform_feedback_mode |-> mode,
                          transform_feedback_varyings |-> varyings]
          IN  tf' = [op |-> "is_transform_feedback_matching", format |-> format,
                     program |-> program,
                     ret |-> is_transform_feedback_matching(format, program)]
    /\ UNCHANGED <<uvars, fvars, peer, prev, vs>>

TFSpec == Init /\ [][IsTransformFeedbackMatching]_vars

\* the sum of the sizes of the first n varyings
RECURSIVE SizeOfFirst(_, _)
SizeOfFirst(varyings, n) ==
    IF n = 0 THEN 0 ELSE SizeOfFirst(varyings, n - 1) + varyings[n].size

\* the captured-output list and the vertex format of the example
VaryingsAB ==
    << [name |-> "a", size |-> 12, ty |-> "F32F32F32"],
       [name |-> "b", size |-> 8, ty |-> "F32F32"] >>
FormatAB == {<<"a", 0, "F32F32F32">>, <<"b", 12, "F32F32">>}

\* C16: in interleaved mode is_transform_feedback_matching succeeds iff for
\* each captured variable, in program order and with the offset equal to the
\* sum of the sizes of the variables before it, the format has an entry with
\* that name, that offset and that type; so the captured list [a: size 12,
\* vec3; b: size 8, vec2] matches a format of exactly (a, 0, vec3) and
\* (b, 12, vec2), and no format without one of these two entries.
C16_Matching ==
    (tf /= NoCall /\ tf.program.transform_feedback_mode = Some("Interleaved")) =>
        LET varyings == tf.program.transform_feedback_varyings IN
        /\ tf.ret =
              \A j \in 1..Len(varyings) :
                  <<varyings[j].name, SizeOfFirst(varyings, j - 1), varyings[j].ty>>
                      \in Range(tf.format)
        /\ varyings = VaryingsAB =>
              /\ Range(tf.format) = FormatAB => tf.ret
              /\ ~(FormatAB \subseteq Range(tf.format)) => ~tf.ret

C16_Witness ==
    /\ tf /= NoCall
    /\ tf.program.transform_feedback_mode = Some("Interleaved")
    /\ tf.program.transform_feedback_varyings = VaryingsAB
    /\ tf.format = << <<"a", 0, "F32F32F32">>, <<"b", 12, "F32F32">> >>
    /\ tf.ret

----------------------------------------------------------------------------
(* Order of the validation checks *)

\* the viewports of Viewports, and one past the maximum on both axes
AllViewports ==
    Viewports \cup {[width |-> MaxViewportWidth + 1, height |-> MaxViewportHeight + 1]}

AllDrawParameters ==
    [depth_test : DepthTest, depth_write : BOOLEAN, viewport : Option(AllViewports)]

SimpleDrawAll == SimpleDrawOf(AllDrawParameters)
MultiDrawAll == MultiDrawOf(AllDrawParameters)

\* targets with and without a depth buffer, and draws with every viewport
ValidationNext ==
    /\ \/ SimpleNew
       \/ SimpleWithDepthBuffer
       \/ MultiNew
       \/ SimpleDrawAll
       \/ MultiDrawAll
    /\ UNCHANGED <<uvars, peer, tf, prev, vs>>

ValidationSpec == Init /\ [][ValidationNext]_vars

\* the lines draw returns from: the depth check, the width test, the height
\* test
ReturnAt(target) ==
    IF target = "simple" THEN [depth |-> 262, width |-> 269, height |-> 274]
    ELSE [depth |-> 496, width |-> 503, height |-> 508]

\* C21: draw evaluates the depth-buffer check before the viewport check and
\* returns at the first check that fails: a draw that needs a depth buffer
\* on a target without one and has an oversized viewport returns
\* NoDepthBuffer, from the depth check; a draw that passes the depth check
\* with a viewport too wide returns ViewportTooLarge from the width test,
\* also when it is too high as well, and from the height test only when the
\* width is within the maximum. ops::draw is not invoked in any of these.
C21_ValidationOrder ==
    IsDraw(last) =>
        LET p == last.draw_parameters
            at == ReturnAt(last.target)
        IN  /\ (~HasDepthAttachment /\ NeedsDepth(p))
                  => /\ last.result = "Err(NoDepthBuffer)"
                     /\ last.at = at.depth /\ last.prim = NoPrim
            /\ ((HasDepthAttachment \/ ~NeedsDepth(p)) /\ p.viewport.some
                    /\ p.viewport.val.width > MaxViewportWidth)
                  => /\ last.result = "Err(ViewportTooLarge)"
                     /\ last.at = at.width /\ last.prim = NoPrim
            /\ ((HasDepthAttachment \/ ~NeedsDepth(p)) /\ p.viewport.some
                    /\ p.viewport.val.width <= MaxViewportWidth
                    /\ p.viewport.val.height > MaxViewportHeight)
                  => /\ last.result = "Err(ViewportTooLarge)"
                     /\ last.at = at.height /\ last.prim = NoPrim

C21_Witness ==
    /\ IsDraw(last) /\ last.target = "simple"
    /\ ~HasDepthAttachment
    /\ last.draw_parameters.depth_test = "IfLess"
    /\ last.draw_parameters.viewport =
          Some([width |-> MaxViewportWidth + 1, height |-> MaxViewportHeight + 1])
    /\ last.result = "Err(NoDepthBuffer)"

\* C22: on a MultiOutputFrameBuffer, build_attachments and ops::draw are
\* reached only after both validation checks pass: a draw that fails
\* validation returns NoDepthBuffer or ViewportTooLarge, also when a declared
\* attachment name has no output slot in the program, and never panics with
\* name-not-found.
C22_ValidationFirst ==
    (IsDraw(last) /\ last.target = "multi") =>
        /\ ~PassesValidation
              => /\ last.result \in {"Err(NoDepthBuffer)", "Err(ViewportTooLarge)"}
                 /\ last.prim = NoPrim
        /\ (last.result = NotFound \/ last.prim /= NoPrim) => PassesValidation

C22_Witness ==
    /\ IsDraw(last) /\ last.target = "multi"
    /\ NameMissing(last.program)
    /\ HasDepthAttachment
    /\ last.draw_parameters.viewport.some
    /\ last.result = "Err(ViewportTooLarge)"

----------------------------------------------------------------------------
(* Sequences of operations on one render target *)

\* what `prev` keeps of a call: the operation and, of a draw, the program and
\* whether ops::draw was reached
Summary(c) ==
    IF c.op = "draw"
    THEN [op |-> "draw", program |-> c.program, dispatched |-> c.prim /= NoPrim]
    ELSE [op |-> c.op]

\* the color_attachments slices of the targets that sequences are run on
SeqColorLists == {l \in ColorLists : Len(l) <= 2}

\* MultiOutputFrameBuffer::new with one of these slices
SeqMultiNew ==
    /\ Fresh
    /\ \E color_attachments \in SeqColorLists :
          MultiConstruct("new", color_attachments, None)

\* a render target, then clears, draws and blits from the screen for as long
\* as the calls return
SeqNext ==
    /\ IF last = NoCall THEN TRUE ELSE Returned
    /\ \/ SimpleNew
       \/ SimpleWithDepthBuffer
       \/ SeqMultiNew
       \/ SimpleDraw
       \/ SimpleClear
       \/ MultiDraw
       \/ MultiClear
       \/ BlitFromFrame
    /\ prev' = Summary(last)
    /\ UNCHANGED <<uvars, peer, tf, vs>>

SeqSpec == Init /\ [][SeqNext]_vars

\* the slot-indexed list of the declared (name, texture) pairs under a
\* program's output-slot table
SlotList(pairs, program) ==
    [k \in 1..Len(pairs) |->
        <<(CHOOSE o \in program : o[1] = pairs[k].name)[2],
          AttachmentTexture(pairs[k].texture, "TEXTURE_2D")>>]

\* C23: the slot-indexed attachment list used by a validated
\* MultiOutputFrameBuffer draw is determined by the target's declared
\* (name, texture) pairs and the output-slot table of the program of that
\* draw alone, whatever programs the earlier draws on the target used.
C23_SlotsPerDraw ==
    MultiDispatched => DrawnColors = SlotList(made.color_attachments, last.program)

C23_Witness ==
    /\ MultiDispatched
    /\ prev.op = "draw" /\ prev.dispatched /\ prev.program /= last.program
    /\ Len(made.color_attachments) = 2
    /\ DrawnColors = SlotList(made.color_attachments, last.program)
    /\ DrawnColors /= SlotList(made.color_attachments, prev.program)

\* the render target the constructor call `made` returned
Constructed ==
    IF made.target = "simple"
    THEN SimpleFrameBuffer_new_impl(made.color, made.depth, made.stencil,
                                    made.depthstencil).fb
    ELSE MultiOutputFrameBuffer_new_impl(made.color_attachments, made.depth, None).fb

\* C24: after any sequence of clear, draw (successful or failing) and blit
\* operations on a SimpleFrameBuffer or a MultiOutputFrameBuffer, its
\* dimensions, its attachments (color list and depth/stencil classification,
\* or named color pairs and depth attachment) and its reported depth and
\* stencil bits are those of its construction, and no operation changes the
\* target.
C24_NoPerDrawState ==
    /\ [](sfb /= NoTarget =>
            /\ sfb.dimensions = Constructed.dimensions
            /\ sfb.attachments = Constructed.attachments
            /\ get_depth_buffer_bits(sfb) = Constructed.depth_buffer_bits
            /\ get_stencil_buffer_bits(sfb) = Constructed.stencil_buffer_bits)
    /\ [](mfb /= NoTarget =>
            /\ mfb.dimensions = Constructed.dimensions
            /\ mfb.color_attachments = Constructed.color_attachments
            /\ mfb.depth_attachment = Constructed.depth_attachment
            /\ mfb.depth_buffer_bits = Constructed.depth_buffer_bits
            /\ mfb.stencil_buffer_bits = Constructed.stencil_buffer_bits)
    /\ [][made /= NoCall => sfb' = sfb /\ mfb' = mfb /\ made' = made]_vars

C24_Witness ==
    /\ sfb /= NoTarget /\ made.op = "with_depth_buffer"
    /\ prev.op = "draw" /\ ~prev.dispatched
    /\ last.op = "blit_color" /\ last.result = "()"
    /\ sfb = Constructed
    /\ get_depth_buffer_bits(sfb) = Some(32)

----------------------------------------------------------------------------
(* The storage of the uniform cache over sequences of calls *)

Max(a, b) == IF a >= b THEN a ELSE b

\* C25: compare_and_store(i, v) changes at most the entry of slot i: the
\* length of the storage after the call is max(previous length, i + 1), so
\* it never decreases, every entry created at an index below i is None (no
\* prior value), and every entry that existed at an index other than i
\* keeps its value.
C25_OnlySlotChanges ==
    [][IsCall(ulast') =>
          LET i == ulast'.loc
          IN  /\ Len(values') = Max(Len(values), i + 1)
              /\ Len(values') >= Len(values)
              /\ \A k \in 1..Len(values') :
                    k /= i + 1 =>
                        values'[k] = IF k <= Len(values) THEN values[k] ELSE None]_vars

C25_Witness ==
    /\ IsCall(ulast) /\ ulast.loc = MaxSlot
    /\ touched = {0, MaxSlot}
    /\ Len(values) = MaxSlot + 1
    /\ values[1].some /\ values[1].val.kind = "Mat4"
    /\ values[MaxSlot + 1].some

\* C26: compare_and_store(i, v) returns true only if the most recent earlier
\* call for slot i submitted a value of the same kind equal to v, so that
\* v, then an opaque value, then v again to one slot returns false the third
\* time; after every call with a cacheable v the entry of slot i holds v,
\* and after a call with an opaque value the slot holds no value that can
\* compare equal.
C26_NoFalseUnchanged ==
    /\ [][(IsCall(ulast) /\ IsCall(ulast') /\ ulast'.loc = ulast.loc /\ ulast'.ret)
            => /\ ulast.value.kind = ulast'.value.kind
               /\ PayloadEq(ulast.value.kind, ulast.value.v, ulast'.value.v)]_vars
    /\ [](IsCall(ulast) =>
            IF ulast.value.kind \in CacheableKinds
            THEN values[ulast.loc + 1] = Some(ulast.value)
            ELSE ~(/\ values[ulast.loc + 1].some
                   /\ SelfEqual(values[ulast.loc + 1].val)))

----------------------------------------------------------------------------
\* the operations on the uniform cache
----------------------------------------------------------------------------
(* Vertex sources: IntoVerticesSource and MultiVerticesSource *)

\* the largest tuple impl_for_tuple!(A, B, C, D, E, F, G) implements
MaxTupleArity == 7

\* VerticesSource::VertexBuffer(buffer, offset, length, per_instance)
VertexBuffer(buf, off, len, per_instance) ==
    [type |-> "VertexBuffer", buffer |-> buf, offset |-> off, length |-> len,
     per_instance |-> per_instance]

\* the slices of two vertex buffers
VertexBufferAnySlice ==
    {[type |-> "VertexBufferAnySlice", buffer |-> "vb1", offset |-> 0, length |-> 3],
     [type |-> "VertexBufferAnySlice", buffer |-> "vb2", offset |-> 1, length |-> 2]}

\* PerInstance(VertexBufferAnySlice)
PerInstance == {[type |-> "PerInstance", slice |-> s] : s \in VertexBufferAnySlice}

\* a source that is a descriptor already
VerticesSource == {VertexBuffer("vb2", 0, 1, TRUE)}

IntoVerticesSource == VerticesSource \cup VertexBufferAnySlice \cup PerInstance

\* a slice describes its buffer, offset and length, per vertex
VertexBufferAnySlice_into_vertices_source(slice) ==
    VertexBuffer(slice.buffer, slice.offset, slice.length, FALSE)

\* PerInstance keeping the flag of the slice
PerInstance_into_vertices_source_PerVertex(source) ==
    VertexBufferAnySlice_into_vertices_source(source.slice)

PerInstance_into_vertices_source(source) ==
    LET inner == VertexBufferAnySlice_into_vertices_source(source.slice)
    IN  IF inner.type = "VertexBuffer" /\ inner.per_instance = FALSE
        THEN VertexBuffer(inner.buffer, inner.offset, inner.length, TRUE)
        ELSE Panic("internal error: entered unreachable code")

into_vertices_source(source) ==
    CASE source.type = "VertexBuffer" -> source
      [] source.type = "VertexBufferAnySlice" ->
            VertexBufferAnySlice_into_vertices_source(source)
      [] source.type = "PerInstance" -> PerInstance_into_vertices_source(source)

\* Some(source.into_vertices_source()).into_iter(), as the sequence it yields
IntoIter(source) == <<into_vertices_source(source)>>

\* the chain yielding the rest before the first element
Chain_RestFirst(t1, rest) == rest \o IntoIter(t1)

\* Some($t1.into_vertices_source()).into_iter().chain(rest)
Chain(t1, rest) == IntoIter(t1) \o rest

\* MultiVerticesSource::iter of a tuple, one implementation per arity: the
\* tuple of one, the pair (chained with the tuple of one of its second
\* element) and the longer tuples (chained with the tuple of the rest)
RECURSIVE TupleIter(_)
TupleIter(self) ==
    IF Len(self) = 1 THEN IntoIter(self[1])
    ELSE IF Len(self) = 2 THEN Chain(self[1], TupleIter(<<self[2]>>))
    ELSE Chain(Head(self), TupleIter(Tail(self)))

\* MultiVerticesSource::iter of a single source
SourceIter(self) == IntoIter(self)

Tuples == UNION {[1..n -> IntoVerticesSource] : n \in 1..MaxTupleArity}

IterTuple ==
    /\ vs = NoCall
    /\ \E self \in Tuples :
          vs' = [op |-> "iter", of |-> "tuple", self |-> self, ret |-> TupleIter(self)]
    /\ UNCHANGED <<uvars, fvars, peer, tf, prev>>

IterSource ==
    /\ vs = NoCall
    /\ \E self \in IntoVerticesSource :
          vs' = [op |-> "iter", of |-> "source", self |-> <<self>>,
                 ret |-> SourceIter(self)]
    /\ UNCHANGED <<uvars, fvars, peer, tf, prev>>

VNext == IterTuple \/ IterSource

VSpec == Init /\ [][VNext]_vars

\* the descriptor a source stands for: its buffer, offset and length, per
\* instance for PerInstance, as given for a descriptor, per vertex otherwise
Described(source) ==
    CASE source.type = "VertexBuffer" -> source
      [] source.type = "VertexBufferAnySlice" ->
            VertexBuffer(source.buffer, source.offset, source.length, FALSE)
      [] source.type = "PerInstance" ->
            VertexBuffer(source.slice.buffer, source.slice.offset,
                         source.slice.length, TRUE)

\* C27: iter of a tuple of n vertex sources (1 <= n <= 7) yields exactly n
\* descriptors, the k-th being the descriptor of the k-th element of the
\* tuple (order kept, none dropped or duplicated); iter of a single source
\* yields exactly one descriptor; the descriptor of a PerInstance source has
\* the buffer, offset and length of its slice and the per-instance flag true.
C27_SourcesInOrder ==
    vs /= NoCall =>
        /\ Len(vs.self) \in 1..MaxTupleArity
        /\ vs.of = "source" => Len(vs.ret) = 1
        /\ Len(vs.ret) = Len(vs.self)
        /\ \A k \in 1..Len(vs.self) :
              /\ vs.ret[k] = Described(vs.self[k])
              /\ vs.self[k].type = "PerInstance" =>
                    /\ vs.ret[k].buffer = vs.self[k].slice.buffer
                    /\ vs.ret[k].offset = vs.self[k].slice.offset
                    /\ vs.ret[k].length = vs.self[k].slice.length
                    /\ vs.ret[k].per_instance = TRUE

C27_Witness ==
    /\ vs /= NoCall /\ vs.of = "tuple"
    /\ Len(vs.self) = MaxTupleArity /\ Len(vs.ret) = MaxTupleArity
    /\ vs.self[1].type = "PerInstance" /\ vs.self[1].slice.buffer = "vb1"
    /\ vs.ret[1] = VertexBuffer("vb1", 0, 3, TRUE)
    /\ vs.self[2].type = "VertexBufferAnySlice"
    /\ vs.ret[2] = VertexBuffer("vb2", 1, 2, FALSE)
    /\ vs.self[MaxTupleArity].type = "VertexBuffer"
    /\ vs.ret[MaxTupleArity] = VertexBuffer("vb2", 0, 1, TRUE)

----------------------------------------------------------------------------
UStep == UNext /\ UNCHANGED <<fvars, peer, tf, prev, vs>>

USpec == Init /\ [][UStep]_vars

============================================================================
